---- MODULE Spec2Model ----
(***************************************************************************)
(* Bar chart race of src/Modules/create_bar_animation.py.                  *)
(*                                                                         *)
(* The module follows the program's three stages:                          *)
(*   - create_bar_animation's aggregation of the event table into          *)
(*     monthly_df and precompute_data's sample timestamps and snapshots    *)
(*     (SpecData);                                                         *)
(*   - preload_images_batch and its pool of download workers               *)
(*     (SpecPreload);                                                      *)
(*   - the frame callback animate, run for frames 0, 1, 2, ... (SpecAnim). *)
(*                                                                         *)
(* Numbers the program holds as floats are exact rationals here            *)
(* ([n |-> numerator, d |-> denominator], in lowest terms): the model      *)
(* leaves out floating point rounding.  Dates are day numbers.             *)
(***************************************************************************)
EXTENDS Integers, Sequences, FiniteSets, TLC

VARIABLES
    pc,                 \* stage of the run
    df,                 \* the event table given to create_bar_animation
    selected_attribute, \* "track_name" | "album_name" | "artist_name"
    analysis_metric,    \* "Streams" | "duration_ms"
    monthly_df,         \* the aggregated table (a sequence of rows)
    top_n,
    start_date,
    end_date,
    days,               \* the sampling stride
    timestamps,         \* precompute_data's first result
    precomputed_data,   \* precompute_data's second result: timestamp -> snapshot
    names,              \* preload_images_batch's names
    item_type,          \* "track" | "album" | "artist"
    image_cache,        \* modules.prepare_visuals.image_cache: cache key -> entry
    items_to_fetch,
    batch_results,      \* lookup key -> image URL
    search_failed,      \* the names whose fallback search raised (and was caught)
    download_tasks,
    futures,            \* per download task: "queued", "running", "True", "False"
    interp_steps,       \* sub-frames per transition
    frame,              \* the number of the next frame FuncAnimation asks for
    anim_state,         \* the AnimationState of the run
    locals,             \* the values animate computed for the last frame drawn
    bars,               \* per slot: [width, y, visible, facecolor]
    text_objects,       \* per slot: the value text
    label_objects,      \* per slot: the label
    artist_label_objects, \* per slot: the caption
    image_annotations,  \* per slot: None or the thumbnail's AnnotationBbox
    annotations_built,  \* how many AnnotationBbox objects were made so far
    axes                \* [xlim, current_time]: the x limit and the date shown

dataVars == <<pc, df, selected_attribute, analysis_metric, monthly_df, top_n,
              start_date, end_date, days, timestamps, precomputed_data>>

preloadVars == <<names, item_type, image_cache, items_to_fetch, batch_results,
                 search_failed, download_tasks, futures>>

dataVars_but_pc == <<df, selected_attribute, analysis_metric, monthly_df, top_n,
                     start_date, end_date, days, timestamps, precomputed_data>>

animVars == <<interp_steps, frame, anim_state, locals, bars, text_objects,
              label_objects, artist_label_objects, image_annotations,
              annotations_built, axes>>

vars == <<dataVars, preloadVars, animVars>>

\* ---------------------------------------------------------------- bounds
MaxDate == 3
MaxEvents == 3
MaxTopN == 3
MaxStride == 2

\* ------------------------------------------------------------- sequences
Range(s) == {s[i] : i \in DOMAIN s}

Max2(a, b) == IF a >= b THEN a ELSE b

Min2(a, b) == IF a <= b THEN a ELSE b

SetMax(S) == CHOOSE x \in S : \A y \in S : y <= x

\* A stable sort of the sequence s: Before(a, b) is the strict order, and
\* elements neither of which is before the other keep their order in s.
StableSort(s, Before(_, _)) ==
    LET n == Len(s)
        pos(i) == 1 + Cardinality({j \in 1..n :
                        \/ Before(s[j], s[i])
                        \/ (~Before(s[i], s[j]) /\ j < i)})
    IN  [p \in 1..n |-> s[CHOOSE i \in 1..n : pos(i) = p]]

\* The elements of the set S as a sequence in the strict total order Before.
SetToSeq(S, Before(_, _)) ==
    LET pos(x) == 1 + Cardinality({y \in S : Before(y, x)})
    IN  [p \in 1..Cardinality(S) |-> CHOOSE x \in S : pos(x) = p]

\* The list with every element computed once.
List(f) == SubSeq(f, 1, Len(f))

Head_n(s, n) == SubSeq(s, 1, Min2(n, Len(s)))

Pad(s, n, x) == s \o [i \in 1..(n - Len(s)) |-> x]

\* ------------------------------------------------------------ the inputs
\* The tracks of the event table.  Two of them share the display name "A".
\* duration_ms is the length of one play.
Catalogue ==
    << [track_name |-> "A", artist_name |-> "x", album_name |-> "P",
        track_uri |-> "u1", duration_ms |-> 3],
       [track_name |-> "A", artist_name |-> "y", album_name |-> "Q",
        track_uri |-> "u2", duration_ms |-> 1],
       [track_name |-> "B", artist_name |-> "x", album_name |-> "P",
        track_uri |-> "u3", duration_ms |-> 2],
       [track_name |-> "C", artist_name |-> "z", album_name |-> "R",
        track_uri |-> "u4", duration_ms |-> 1] >>

\* Python's order of the strings of the catalogue ("" first).
StrRank(s) ==
    CASE s = ""   -> 0
      [] s = "A"  -> 1
      [] s = "B"  -> 2
      [] s = "C"  -> 3
      [] s = "P"  -> 4
      [] s = "Q"  -> 5
      [] s = "R"  -> 6
      [] s = "u1" -> 7
      [] s = "u2" -> 8
      [] s = "u3" -> 9
      [] s = "u4" -> 10
      [] s = "x"  -> 11
      [] s = "y"  -> 12
      [] s = "z"  -> 13

\* One row of df: a play of a track on a day.
Event(date, k) ==
    [Date |-> date, track_name |-> Catalogue[k].track_name,
     artist_name |-> Catalogue[k].artist_name,
     album_name |-> Catalogue[k].album_name,
     track_uri |-> Catalogue[k].track_uri,
     duration_ms |-> Catalogue[k].duration_ms]

EventBefore(a, b) ==
    \/ a.Date < b.Date
    \/ a.Date = b.Date /\ StrRank(a.track_uri) < StrRank(b.track_uri)

\* The event tables over the tracks ks and the days 1..lastDate with at most
\* maxEvents rows, in chronological order.
DfSet(ks, lastDate, maxEvents) ==
    LET cells == {Event(date, k) : date \in 1..lastDate, k \in ks}
    IN  {SetToSeq(S, EventBefore) :
            S \in {T \in SUBSET cells : Cardinality(T) <= maxEvents}}

\* ------------------------------------------------- create_bar_animation
\* Sum of f[i] over i in 1..n.
RECURSIVE SumTo(_, _)
SumTo(f, n) == IF n = 0 THEN 0 ELSE f[n] + SumTo(f, n - 1)

\* The index of the first row of the table s that satisfies P (pandas'
\* first()).  Used only where such a row exists.
FirstIndex(s, P(_)) ==
    CHOOSE i \in DOMAIN s : P(s[i]) /\ \A j \in 1..(i - 1) : ~P(s[j])

\* track_uri_mapping: the first track_uri of the rows of the event table d
\* that agree with the event e on the columns the mapping is grouped by.
TrackUriMapping(d, e, attr) ==
    IF attr = "album_name"
    THEN d[FirstIndex(d, LAMBDA r : r.album_name = e.album_name
                                    /\ r.artist_name = e.artist_name)].track_uri
    ELSE d[FirstIndex(d, LAMBDA r : r.artist_name = e.artist_name)].track_uri

\* The group of d.groupby([...]) the event e falls in, as the columns the
\* row of monthly_df gets.  In the artist table the ranked column is
\* artist_name itself.
GroupOf(d, e, attr) ==
    [Date |-> e.Date,
     key |-> e[attr],
     artist_name |-> e.artist_name,
     track_uri |-> IF attr = "track_name" THEN e.track_uri
                   ELSE TrackUriMapping(d, e, attr)]

\* groupby sorts the groups by their key columns, left to right.
GroupBefore(a, b) ==
    LET ka == <<a.Date, StrRank(a.key), StrRank(a.artist_name), StrRank(a.track_uri)>>
        kb == <<b.Date, StrRank(b.key), StrRank(b.artist_name), StrRank(b.track_uri)>>
    IN  \E i \in 1..4 : ka[i] < kb[i] /\ \A j \in 1..(i - 1) : ka[j] = kb[j]

\* .sum() of the metric column, or .size(), of one group.
GroupValue(d, g, attr, metric) ==
    SumTo([i \in DOMAIN d |->
              IF GroupOf(d, d[i], attr) # g THEN 0
              ELSE IF metric = "Streams" THEN 1 ELSE d[i].duration_ms],
          Len(d))

\* monthly_df before the cumulative column, sorted by Date.  The groups come
\* out of groupby ordered by Date first, so sort_values("Date") keeps them.
GroupedRows(d, attr, metric) ==
    LET groups == {GroupOf(d, d[i], attr) : i \in DOMAIN d}
        rows == SetToSeq(groups, GroupBefore)
        byDate == StableSort(rows, LAMBDA a, b : a.Date < b.Date)
    IN  [i \in DOMAIN byDate |->
            [Date |-> byDate[i].Date, key |-> byDate[i].key,
             artist_name |-> byDate[i].artist_name,
             track_uri |-> byDate[i].track_uri,
             val |-> GroupValue(d, byDate[i], attr, metric)]]

\* Whether rows a and b are in one group of the groupby the cumulative sum
\* is taken over (lines 319-321 for duration_ms, 358-369 for Streams).
SameCumGroup(a, b, attr, metric) ==
    IF metric = "duration_ms"
    THEN a.key = b.key
    ELSE CASE attr = "track_name" ->
                a.key = b.key /\ a.artist_name = b.artist_name
                /\ a.track_uri = b.track_uri
           [] attr = "album_name" ->
                a.key = b.key /\ a.artist_name = b.artist_name
           [] OTHER -> a.key = b.key

\* groupby(...)[metric].cumsum(): the running sum within the row's group.
CumSum(rows, i, attr, metric) ==
    SumTo([j \in 1..i |-> IF SameCumGroup(rows[j], rows[i], attr, metric)
                          THEN rows[j].val ELSE 0], i)

\* monthly_df as create_bar_animation hands it to precompute_data.
MonthlyDf(d, attr, metric) ==
    LET rows == GroupedRows(d, attr, metric)
    IN  [i \in DOMAIN rows |->
            [Date |-> rows[i].Date, key |-> rows[i].key,
             artist_name |-> rows[i].artist_name,
             track_uri |-> rows[i].track_uri,
             val |-> rows[i].val,
             cum |-> CumSum(rows, i, attr, metric)]]

\* ------------------------------------------------------ precompute_data
\* start_date = start_date + pd.Timedelta(days=4)
StartSkip == 4

\* Mutant of InRange: the upper end of the date range is not applied.
InRangeNoEnd(ts, first, last) == first <= ts

\* The filter of line 164.
InRange(ts, first, last) == first <= ts /\ ts <= last

\* timestamps[::stride]
EveryNth(s, stride) ==
    [i \in 1..((Len(s) + stride - 1) \div stride) |-> s[(i - 1) * stride + 1]]

\* Lines 163-165: the distinct dates of the table within the range, sorted,
\* every stride-th of them.
SampledDates(mdf, first, last, stride) ==
    LET dates == {mdf[i].Date : i \in DOMAIN mdf}
        sorted == SetToSeq(dates, LAMBDA a, b : a < b)
        kept == SelectSeq(sorted, LAMBDA ts : InRange(ts, first + StartSkip, last))
    IN  EveryNth(kept, stride)

\* Lines 167-172, for a non-empty list of samples.
ForceEnd(s, last) ==
    IF s[Len(s)] # last
    THEN StableSort(IF last > s[Len(s)] THEN Append(s, last)
                    ELSE [s EXCEPT ![Len(s)] = last],
                    LAMBDA a, b : a < b)
    ELSE s

\* Mutant of RankBefore: the rows are ranked in ascending order.
RankBeforeAscending(a, b) == a.cum < b.cum

\* sort_values(by the cumulative column, ascending=False): the order of the
\* ranking.  prev_rank is the same for every row and decides nothing, so
\* rows of equal value keep the order groupby gave them.
RankBefore(a, b) == a.cum > b.cum

\* Lines 176-196: the rows at or before ts, one per value of the ranked
\* column with the maximum of the cumulative column and the first
\* artist_name and track_uri, ranked.
CurrentDf(mdf, ts, attr) ==
    LET cumulative_df == SelectSeq(mdf, LAMBDA r : r.Date <= ts)
        keys == {cumulative_df[i].key : i \in DOMAIN cumulative_df}
        first(k) == cumulative_df[FirstIndex(cumulative_df, LAMBDA r : r.key = k)]
        grouped == SetToSeq(keys, LAMBDA a, b : StrRank(a) < StrRank(b))
        rows == [i \in DOMAIN grouped |->
                    [key |-> grouped[i],
                     cum |-> SetMax({cumulative_df[j].cum :
                                j \in {x \in DOMAIN cumulative_df :
                                          cumulative_df[x].key = grouped[i]}}),
                     artist_name |-> IF attr = "artist_name" THEN grouped[i]
                                     ELSE first(grouped[i]).artist_name,
                     track_uri |-> first(grouped[i]).track_uri]]
    IN  StableSort(rows, RankBefore)

\* "\n".join(textwrap.wrap(name, width)): the names of the catalogue are
\* single words shorter than either width (22 and 20), which wrap returns as
\* one line; the empty name wraps to no line at all.
WrapLabel(name) == IF name = "" THEN "" ELSE name

\* Mutant of PadTo: the padding is left out.
PadToNothing(s, n, x) == s

\* s + [x] * (n - len(s))
PadTo(s, n, x) == Pad(s, n, x)

\* Lines 197-227: the snapshot of one timestamp.
Snapshot(mdf, ts, attr, n) ==
    LET top_n_df == Head_n(CurrentDf(mdf, ts, attr), n)
    IN  [widths |-> PadTo([i \in DOMAIN top_n_df |-> top_n_df[i].cum], n, 0),
         labels |-> PadTo([i \in DOMAIN top_n_df |-> WrapLabel(top_n_df[i].key)], n, ""),
         names |-> PadTo([i \in DOMAIN top_n_df |-> top_n_df[i].key], n, ""),
         artist_names |-> PadTo([i \in DOMAIN top_n_df |-> top_n_df[i].artist_name], n, "")]

\* precompute_data's two results, for a table with a date in the range.
Timestamps(mdf, first, last, stride) ==
    ForceEnd(SampledDates(mdf, first, last, stride), last)

PrecomputedData(mdf, tss, attr, n) ==
    [ts \in Range(tss) |-> Snapshot(mdf, ts, attr, n)]

\* ---------------------------------------------------- the data pipeline
Attributes == {"track_name", "album_name", "artist_name"}

Metrics == {"Streams", "duration_ms"}

\* The tracks of the tables of SpecData: the first three of the catalogue.
DataTracks == {1, 2, 3}

\* (start_date, end_date) of the run.
DateRanges == {<<-3, MaxDate>>, <<-2, MaxDate - 1>>, <<-3, MaxDate + 1>>}

\* The variables of preload_images_batch before it is called.
PreloadIdle ==
    /\ names = <<>>
    /\ item_type = ""
    /\ image_cache = <<>>
    /\ items_to_fetch = <<>>
    /\ batch_results = <<>>
    /\ search_failed = {}
    /\ download_tasks = <<>>
    /\ futures = <<>>

\* The variables of the animation before it is set up.
AnimIdle ==
    /\ interp_steps = 0
    /\ frame = 0
    /\ anim_state = <<>>
    /\ locals = <<>>
    /\ bars = <<>>
    /\ text_objects = <<>>
    /\ label_objects = <<>>
    /\ artist_label_objects = <<>>
    /\ image_annotations = <<>>
    /\ annotations_built = 0
    /\ axes = <<>>

InitData ==
    /\ pc = "start"
    /\ df \in DfSet(DataTracks, MaxDate, MaxEvents)
    /\ selected_attribute \in Attributes
    /\ analysis_metric \in Metrics
    /\ monthly_df = <<>>
    /\ top_n = 0
    /\ start_date = 0
    /\ end_date = 0
    /\ days = 0
    /\ timestamps = <<>>
    /\ precomputed_data = <<>>
    /\ PreloadIdle
    /\ AnimIdle

\* create_bar_animation, lines 282-369.
Aggregate ==
    /\ pc = "start"
    /\ monthly_df' = MonthlyDf(df, selected_attribute, analysis_metric)
    /\ pc' = "aggregated"
    /\ UNCHANGED <<df, selected_attribute, analysis_metric, top_n, start_date,
                   end_date, days, timestamps, precomputed_data>>
    /\ UNCHANGED <<preloadVars, animVars>>

\* The call of precompute_data at lines 372-379.  timestamps[-1] of an empty
\* list raises IndexError.
Precompute ==
    /\ pc = "aggregated"
    /\ \E n \in 1..MaxTopN, range \in DateRanges, stride \in 1..MaxStride :
          /\ top_n' = n
          /\ start_date' = range[1]
          /\ end_date' = range[2]
          /\ days' = stride
          /\ IF SampledDates(monthly_df, range[1], range[2], stride) = <<>>
             THEN /\ pc' = "raised"
                  /\ UNCHANGED <<timestamps, precomputed_data>>
             ELSE /\ pc' = "precomputed"
                  /\ timestamps' = Timestamps(monthly_df, range[1], range[2], stride)
                  /\ precomputed_data' =
                        PrecomputedData(monthly_df, timestamps', selected_attribute, n)
    /\ UNCHANGED <<df, selected_attribute, analysis_metric, monthly_df>>
    /\ UNCHANGED <<preloadVars, animVars>>

NextData == Aggregate \/ Precompute

SpecData == InitData /\ [][NextData]_vars

\* ------------------------------------------------- claims on the data
Precomputed == pc = "precomputed"

\* The values of the ranked column with a row at or before ts.
EntitiesAt(ts) == {monthly_df[i].key : i \in {j \in DOMAIN monthly_df : monthly_df[j].Date <= ts}}

\* C4: every snapshot built by precompute_data has exactly top_n entries in
\* each of widths, labels, names and artist_names; when only m < top_n
\* entities have rows at or before the timestamp, slots 0..m-1 hold those
\* entities and the trailing top_n - m slots have an empty name and value 0.
C4_SnapshotHasTopNSlots ==
    Precomputed =>
        \A ts \in DOMAIN precomputed_data :
            LET snap == precomputed_data[ts]
                m == Cardinality(EntitiesAt(ts))
            IN  /\ Len(snap.widths) = top_n
                /\ Len(snap.labels) = top_n
                /\ Len(snap.names) = top_n
                /\ Len(snap.artist_names) = top_n
                /\ m < top_n =>
                      /\ {snap.names[i] : i \in 1..m} = EntitiesAt(ts)
                      /\ \A i \in (m + 1)..top_n :
                            /\ snap.names[i] = ""
                            /\ snap.widths[i] = 0
                            /\ snap.labels[i] = ""
                            /\ snap.artist_names[i] = ""

\* A snapshot of three slots with one entity and two trailing empty slots.
C4_Witness ==
    /\ Precomputed
    /\ top_n = 3
    /\ \E ts \in DOMAIN precomputed_data :
          /\ Cardinality(EntitiesAt(ts)) = 1
          /\ precomputed_data[ts].names[1] # ""
          /\ precomputed_data[ts].names[2] = ""
          /\ precomputed_data[ts].names[3] = ""

\* C5: in every snapshot the widths are non-increasing from slot 0 to slot
\* top_n - 1, the padding included, and each occupied slot holds the maximum
\* cumulative value recorded for its entity at or before the timestamp.
C5_SnapshotRanked ==
    Precomputed =>
        \A ts \in DOMAIN precomputed_data :
            LET snap == precomputed_data[ts]
            IN  /\ \A i \in 1..(Len(snap.widths) - 1) :
                      snap.widths[i] >= snap.widths[i + 1]
                /\ \A i \in DOMAIN snap.names :
                      snap.names[i] # "" =>
                          snap.widths[i] =
                              SetMax({monthly_df[j].cum :
                                  j \in {x \in DOMAIN monthly_df :
                                            /\ monthly_df[x].Date <= ts
                                            /\ monthly_df[x].key = snap.names[i]}})

\* A snapshot that ranks two entities of different value above a padding slot.
C5_Witness ==
    /\ Precomputed
    /\ \E ts \in DOMAIN precomputed_data :
          LET snap == precomputed_data[ts]
          IN  /\ Len(snap.widths) = 3
              /\ snap.widths[1] > snap.widths[2]
              /\ snap.widths[2] > 0
              /\ snap.names[3] = ""

\* C6: the sample timestamp list precompute_data returns contains end_date
\* exactly once, as its last element, and is strictly increasing.
C6_TimestampsEndOnce ==
    Precomputed =>
        /\ timestamps # <<>>
        /\ timestamps[Len(timestamps)] = end_date
        /\ Cardinality({i \in DOMAIN timestamps : timestamps[i] = end_date}) = 1
        /\ \A i \in 1..(Len(timestamps) - 1) : timestamps[i] < timestamps[i + 1]

\* The stride does not land on end_date, which is appended to two samples.
C6_Witness ==
    /\ Precomputed
    /\ days = 2
    /\ Len(timestamps) = 3
    /\ LET sampled == SampledDates(monthly_df, start_date, end_date, days)
       IN  sampled[Len(sampled)] # end_date

Aggregated == pc \in {"aggregated", "precomputed", "raised"}

\* C7: when the ranked attribute is track_name, for both metrics the
\* cumulative value of a row is the running sum over the rows of its own
\* composite key (track_name, artist_name, track_uri): two tracks that share
\* a display name are never added into one cumulative value.
C7_CumulativePerCompositeKey ==
    (Aggregated /\ selected_attribute = "track_name") =>
        \A i \in DOMAIN monthly_df :
            monthly_df[i].cum =
                SumTo([j \in 1..i |->
                          IF /\ monthly_df[j].key = monthly_df[i].key
                             /\ monthly_df[j].artist_name = monthly_df[i].artist_name
                             /\ monthly_df[j].track_uri = monthly_df[i].track_uri
                          THEN monthly_df[j].val ELSE 0], i)

\* ------------------------------------------------- preload_images_batch
\* max_workers of the ThreadPoolExecutor.
MaxWorkers == 5

\* The marker of an image that is not available.
None == [none |-> TRUE]

\* f"{name}_top_n_{top_n}"
CacheKey(name, n) == <<name, n>>

\* int(bar_height * scale_factor), lines 382-407.
TargetSize(n) ==
    CASE n = 1 -> 210 [] n = 2 -> 210 [] n = 3 -> 187 [] n = 4 -> 136
      [] n = 5 -> 112 [] n = 6 -> 88  [] n = 7 -> 72  [] n = 8 -> 64
      [] n = 9 -> 60  [] n = 10 -> 57

\* The URL the image service holds for a name.
UrlOf(name) == <<"url", name>>

\* What _download_and_cache_image stores when the download succeeds: the
\* image behind the URL resized to target_size, and get_dominant_color of it.
Downloaded(task) ==
    [img |-> <<task.image_url, task.target_size>>, color |-> <<"color", task.name>>]

\* Lines 51-68: the items whose cache key is not in image_cache and that
\* have a row in the table.
ItemFor(name, mdf, type, n) ==
    LET row == mdf[FirstIndex(mdf, LAMBDA r : r.key = name)]
        has_uri == row.track_uri # ""
    IN  [name |-> name, type |-> type, cache_key |-> CacheKey(name, n),
         track_uri |-> IF has_uri THEN row.track_uri ELSE "",
         search_required |-> ~has_uri /\ type = "artist"]

ItemsToFetch(ns, mdf, type, n, cache) ==
    LET wanted == SelectSeq(ns, LAMBDA name :
                      /\ CacheKey(name, n) \notin DOMAIN cache
                      /\ \E i \in DOMAIN mdf : mdf[i].key = name)
    IN  [i \in DOMAIN wanted |-> ItemFor(wanted[i], mdf, type, n)]

\* Lines 95-103: the keys of batch_results under which the URL of an item
\* is looked up: the track_uri of a track that has one, and the name.
ResultKeys(item) ==
    IF item.type = "track" /\ item.track_uri # ""
    THEN {item.track_uri, item.name} ELSE {item.name}

\* Lines 95-103: the URL of an item in batch_results, or "" for None.
ImageUrl(item, results) ==
    LET get(k) == IF k \in DOMAIN results THEN results[k] ELSE ""
    IN  IF item.type = "track"
        THEN IF item.track_uri # "" /\ get(item.track_uri) # ""
             THEN get(item.track_uri) ELSE get(item.name)
        ELSE get(item.name)

\* Lines 93-115.
DownloadTasks(items, results, size) ==
    LET with_url == SelectSeq(items, LAMBDA item : ImageUrl(item, results) # "")
    IN  [i \in DOMAIN with_url |->
            [name |-> with_url[i].name, cache_key |-> with_url[i].cache_key,
             image_url |-> ImageUrl(with_url[i], results), target_size |-> size]]

\* Lines 150-152: except Exception: image_cache[cache_key] = None
Except(cache, task) ==
    [k \in DOMAIN cache \cup {task.cache_key} |->
        IF k = task.cache_key THEN None ELSE cache[k]]

\* Line 148: image_cache[cache_key] = {"img": ..., "color": ...}
Store(cache, task) ==
    [k \in DOMAIN cache \cup {task.cache_key} |->
        IF k = task.cache_key THEN Downloaded(task) ELSE cache[k]]

CatalogueNames == {"A", "B", "C"}

\* A table with one row for each name of ns; the names of no_uri have an
\* empty track_uri.
PreloadTable(ns, no_uri) ==
    [i \in DOMAIN ns |->
        [Date |-> 1, key |-> ns[i], artist_name |-> ns[i],
         track_uri |-> IF ns[i] \in no_uri THEN ""
                       ELSE Catalogue[CHOOSE k \in DOMAIN Catalogue :
                                Catalogue[k].track_name = ns[i]].track_uri,
         val |-> 1, cum |-> 1]]

\* The call of preload_images_batch (lines 409-413) for the distinct names
\* of a table, with a cache that is empty or holds the image of "A" from an
\* earlier run.
InitPreload ==
    /\ pc = "preload"
    /\ df = <<>>
    /\ selected_attribute \in Attributes
    /\ analysis_metric = "Streams"
    /\ \E S \in (SUBSET CatalogueNames) \ {{}} :
          /\ names = SetToSeq(S, LAMBDA a, b : StrRank(a) < StrRank(b))
          /\ \E no_uri \in SUBSET S : monthly_df = PreloadTable(names, no_uri)
    /\ top_n = MaxTopN
    /\ start_date = 0
    /\ end_date = 0
    /\ days = 0
    /\ timestamps = <<>>
    /\ precomputed_data = <<>>
    /\ item_type = CASE selected_attribute = "artist_name" -> "artist"
                     [] selected_attribute = "track_name" -> "track"
                     [] selected_attribute = "album_name" -> "album"
    /\ image_cache \in
          {<<>>,
           [k \in {CacheKey("A", top_n)} |->
               Downloaded([name |-> "A", image_url |-> UrlOf("A"),
                           target_size |-> TargetSize(top_n)])]}
    /\ items_to_fetch = <<>>
    /\ batch_results = <<>>
    /\ search_failed = {}
    /\ download_tasks = <<>>
    /\ futures = <<>>
    /\ AnimIdle

\* Lines 48-68.
CollectItems ==
    /\ pc = "preload"
    /\ items_to_fetch' = ItemsToFetch(names, monthly_df, item_type, top_n, image_cache)
    /\ pc' = IF items_to_fetch' = <<>> THEN "returned" ELSE "fetch"
    /\ UNCHANGED animVars
    /\ UNCHANGED <<dataVars_but_pc, names, item_type, image_cache, batch_results,
                   search_failed, download_tasks, futures>>

\* Lines 71-90: fetch_images_batch answers with the URLs of some of the
\* batch items, each under one of the keys the lookup reads; fetch_image,
\* called for each search item in turn, returns a URL, returns None or
\* raises, and the exception is caught and printed.
FetchUrls ==
    /\ pc = "fetch"
    /\ LET batch_items == {i \in DOMAIN items_to_fetch : ~items_to_fetch[i].search_required}
           search_items == {i \in DOMAIN items_to_fetch : items_to_fetch[i].search_required}
       IN  \E found \in SUBSET batch_items,
              outcome \in [search_items -> {"url", "none", "raised"}] :
            \E by_name \in SUBSET found :
              LET key(i) == IF i \in by_name \/ items_to_fetch[i].track_uri \notin ResultKeys(items_to_fetch[i])
                            THEN items_to_fetch[i].name
                            ELSE items_to_fetch[i].track_uri
                  got == {key(i) : i \in found}
                         \cup {items_to_fetch[i].name :
                                  i \in {j \in search_items : outcome[j] = "url"}}
                  owner(k) == CHOOSE i \in DOMAIN items_to_fetch :
                                 k \in ResultKeys(items_to_fetch[i])
              IN  /\ batch_results' = [k \in got |-> UrlOf(items_to_fetch[owner(k)].name)]
                  /\ search_failed' = {items_to_fetch[i].name :
                                          i \in {j \in search_items : outcome[j] = "raised"}}
    /\ pc' = "tasks"
    /\ UNCHANGED animVars
    /\ UNCHANGED <<dataVars_but_pc, names, item_type, image_cache, items_to_fetch,
                   download_tasks, futures>>

\* Lines 92-123: the download tasks are made and submitted to the pool.
SubmitDownloads ==
    /\ pc = "tasks"
    /\ download_tasks' = DownloadTasks(items_to_fetch, batch_results, TargetSize(top_n))
    /\ futures' = [i \in DOMAIN download_tasks' |-> "queued"]
    /\ pc' = IF download_tasks' = <<>> THEN "returned" ELSE "pool"
    /\ UNCHANGED animVars
    /\ UNCHANGED <<dataVars_but_pc, names, item_type, image_cache, items_to_fetch,
                   batch_results, search_failed>>

\* A free worker of the pool takes the oldest queued task and starts
\* _download_and_cache_image on it.
StartDownload(i) ==
    /\ pc = "pool"
    /\ futures[i] = "queued"
    /\ \A j \in 1..(i - 1) : futures[j] # "queued"
    /\ Cardinality({j \in DOMAIN futures : futures[j] = "running"}) < MaxWorkers
    /\ futures' = [futures EXCEPT ![i] = "running"]
    /\ UNCHANGED animVars
    /\ UNCHANGED <<dataVars, names, item_type, image_cache, items_to_fetch,
                   batch_results, search_failed, download_tasks>>

\* Lines 142-149: the download, the resize and the colour succeed.
DownloadSucceeds(i) ==
    /\ pc = "pool"
    /\ futures[i] = "running"
    /\ image_cache' = Store(image_cache, download_tasks[i])
    /\ futures' = [futures EXCEPT ![i] = "True"]
    /\ UNCHANGED animVars
    /\ UNCHANGED <<dataVars, names, item_type, items_to_fetch, batch_results,
                   search_failed, download_tasks>>

\* Lines 150-152: one of them raises.
DownloadFails(i) ==
    /\ pc = "pool"
    /\ futures[i] = "running"
    /\ image_cache' = Except(image_cache, download_tasks[i])
    /\ futures' = [futures EXCEPT ![i] = "False"]
    /\ UNCHANGED animVars
    /\ UNCHANGED <<dataVars, names, item_type, items_to_fetch, batch_results,
                   search_failed, download_tasks>>

\* Lines 125-133: every future has its result and the function returns.
JoinDownloads ==
    /\ pc = "pool"
    /\ \A i \in DOMAIN futures : futures[i] \in {"True", "False"}
    /\ pc' = "returned"
    /\ UNCHANGED <<dataVars_but_pc, preloadVars, animVars>>

NextPreload ==
    \/ CollectItems
    \/ FetchUrls
    \/ SubmitDownloads
    \/ \E i \in DOMAIN futures : StartDownload(i)
    \/ \E i \in DOMAIN futures : DownloadSucceeds(i)
    \/ \E i \in DOMAIN futures : DownloadFails(i)
    \/ JoinDownloads

SpecPreload == InitPreload /\ [][NextPreload]_vars

\* --------------------------------------------- claims on the image cache
\* The index of the download task of an item, 0 when it has none.
TaskOf(item) ==
    IF \E i \in DOMAIN download_tasks : download_tasks[i].cache_key = item.cache_key
    THEN CHOOSE i \in DOMAIN download_tasks : download_tasks[i].cache_key = item.cache_key
    ELSE 0

\* The image fetch or the download of the item failed.
FetchOrDownloadFailed(item) ==
    \/ TaskOf(item) = 0
    \/ futures[TaskOf(item)] = "False"

\* C10: when preload_images_batch has returned, the cache key of every item
\* whose image fetch (batch lookup, fallback search) or download failed holds
\* the marker None, and the cache entry of every other item is the result of
\* its own download; no failure reaches the caller.
C10_FailedItemsHoldNone ==
    pc = "returned" =>
        \A i \in DOMAIN items_to_fetch :
            LET item == items_to_fetch[i]
            IN  /\ item.cache_key \in DOMAIN image_cache
                /\ IF FetchOrDownloadFailed(item)
                   THEN image_cache[item.cache_key] = None
                   ELSE image_cache[item.cache_key] = Downloaded(download_tasks[TaskOf(item)])

\* -------------------------------------------------------------- numbers
Abs(x) == IF x < 0 THEN -x ELSE x

RECURSIVE GCD(_, _)
GCD(a, b) == IF b = 0 THEN a ELSE GCD(b, a % b)

\* The rational n / d in lowest terms, d > 0.
Rat(n, d) ==
    LET g == GCD(Abs(n), Abs(d))
        sign == IF d < 0 THEN -1 ELSE 1
    IN  [n |-> (sign * n) \div g, d |-> (sign * d) \div g]

RInt(k) == [n |-> k, d |-> 1]

RAdd(a, b) == Rat(a.n * b.d + b.n * a.d, a.d * b.d)

RSub(a, b) == Rat(a.n * b.d - b.n * a.d, a.d * b.d)

RMul(a, b) == Rat(a.n * b.n, a.d * b.d)

RLeq(a, b) == a.n * b.d <= b.n * a.d

RLess(a, b) == a.n * b.d < b.n * a.d

RMax(a, b) == IF RLeq(b, a) THEN a ELSE b

RMin(a, b) == IF RLeq(a, b) THEN a ELSE b

\* max() of a non-empty list of numbers.
RMaxOf(s) == s[CHOOSE i \in DOMAIN s : \A j \in DOMAIN s : RLeq(s[j], s[i])]

\* f"{x:,.0f}": x rounded to the nearest integer, halves to the even one
\* (the digit grouping of the text is not modelled).
FormatValue(x) ==
    LET floor == x.n \div x.d
        rest == x.n - floor * x.d
    IN  IF 2 * rest < x.d THEN floor
        ELSE IF 2 * rest > x.d THEN floor + 1
        ELSE IF floor % 2 = 0 THEN floor ELSE floor + 1

\* ---------------------------------------------------------------- animate
\* The value -1 of a position off the screen.
OffScreen == RInt(-1)

\* Lines 602-605.
TargetPositions(n) ==
    IF n = 1 THEN <<Rat(45, 10)>>
    ELSE List([i \in 1..n |->
                 RSub(Rat(89, 10), RMul(RInt(i - 1), Rat(86, 10 * (n - 1))))])

\* bar_height, lines 395-406.
BarHeight(n) ==
    CASE n = 1 -> Rat(30, 10) [] n = 2 -> Rat(30, 10) [] n = 3 -> Rat(25, 10)
      [] n = 4 -> Rat(17, 10) [] n = 5 -> Rat(14, 10) [] n = 6 -> Rat(11, 10)
      [] n = 7 -> Rat(9, 10)  [] n = 8 -> Rat(8, 10)  [] n = 9 -> Rat(75, 100)
      [] n = 10 -> Rat(7, 10)

\* min_bar_width_mapping.get(top_n, 0.11), lines 662-675.
MinBarWidthMultiplier(n) ==
    CASE n = 1 -> Rat(30, 100) [] n = 2 -> Rat(54, 100) [] n = 3 -> Rat(37, 100)
      [] n = 4 -> Rat(28, 100) [] n = 5 -> Rat(22, 100) [] n = 6 -> Rat(19, 100)
      [] n = 7 -> Rat(16, 100) [] n = 8 -> Rat(14, 100) [] n = 9 -> Rat(13, 100)
      [] OTHER -> Rat(11, 100)

\* Mutant of quadratic_ease_in_out: the factor 2 is left out.
EaseWithoutFactor(t) == RMul(RMul(t, t), RSub(RInt(3), t))

\* Lines 584-586.
quadratic_ease_in_out(t) == RMul(RMul(t, t), RSub(RInt(3), RMul(RInt(2), t)))

\* Line 634.
TOf(sub_step, steps) == IF steps > 1 THEN Rat(sub_step, steps - 1) ELSE RInt(1)

\* Mutant of BarMapping: slot i is taken to continue slot i.
BarMappingBySlot(new_names, prev_names) == [i \in DOMAIN new_names |-> i]

\* Lines 615-621: for each new slot the index of the first occurrence of its
\* name in prev_names, 0 for None.
BarMapping(new_names, prev_names) ==
    List([i \in DOMAIN new_names |->
             IF \E j \in DOMAIN prev_names : prev_names[j] = new_names[i]
             THEN FirstIndex(prev_names, LAMBDA x : x = new_names[i])
             ELSE 0])

\* Lines 607-632: the positions the slots start from.
StartPositions(n_frame, sub_step, new_names, st) ==
    IF sub_step = 0
    THEN IF n_frame = 0
         THEN List([i \in DOMAIN new_names |-> OffScreen])
         ELSE LET bar_mapping == BarMapping(new_names, st.prev_names)
              IN  List([i \in DOMAIN new_names |->
                           IF bar_mapping[i] # 0
                           THEN st.prev_interp_positions[bar_mapping[i]]
                           ELSE OffScreen])
    ELSE st.prev_interp_positions

\* Lines 607-632: the positions the slots move to.
NewPositions(sub_step, n, st) ==
    IF sub_step = 0 THEN TargetPositions(n) ELSE st.current_new_positions

\* Lines 637-647.
InterpPositions(start_positions, new_positions, t_eased) ==
    List([i \in DOMAIN new_positions |->
             RMin(RMax(RAdd(start_positions[i],
                            RMul(RSub(new_positions[i], start_positions[i]), t_eased)),
                       RInt(-1)),
                  RInt(9))])

\* Lines 648-656.
InterpWidths(widths, prev_widths, t_eased) ==
    List([i \in DOMAIN widths |->
             IF i <= Len(prev_widths)
             THEN RAdd(RInt(prev_widths[i]),
                       RMul(RSub(RInt(widths[i]), RInt(prev_widths[i])), t_eased))
             ELSE RMul(RInt(widths[i]), t_eased)])

\* Mutant of HasData: a slot with a name has data whatever its width.
HasDataByName(width, name) == name # ""

\* Line 682.
HasData(width, name) == RLess(RInt(0), width) /\ name # ""

\* Mutant of DisplayWidth: the floor is not applied.
DisplayWidthNoFloor(width, min_bar_width) == width

\* Line 685.
DisplayWidth(width, min_bar_width) == RMax(width, min_bar_width)

\* Mutant of IsFirstFrame: the first frame is handled like every other.
IsFirstFrameNever(n_frame, sub_step) == FALSE

\* Lines 692 and 734.
IsFirstFrame(n_frame, sub_step) == n_frame = 0 /\ sub_step = 0

\* Lines 707-708.
Offset(display_widths) ==
    RMax(Rat(1, 100), RMul(RMaxOf(display_widths), Rat(3, 100)))

\* Lines 588-695 and 707-708: the values animate computes for a frame
\* before it draws.
FrameValues(n_frame, steps, n, data, st) ==
    LET main_frame == n_frame \div steps
        sub_step == n_frame % steps
        start_positions == StartPositions(n_frame, sub_step, data.names, st)
        new_positions == NewPositions(sub_step, n, st)
        t_eased == quadratic_ease_in_out(TOf(sub_step, steps))
        positions == InterpPositions(start_positions, new_positions, t_eased)
        interp_widths == InterpWidths(data.widths, st.prev_widths, t_eased)
        max_width == RMaxOf(interp_widths)
        min_bar_width == RMul(max_width, MinBarWidthMultiplier(n))
        has_data == List([i \in 1..n |-> HasData(interp_widths[i], data.names[i])])
        first == IsFirstFrame(n_frame, sub_step)
        display_widths ==
            List([i \in 1..n |->
                     IF first \/ ~has_data[i] THEN RInt(0)
                     ELSE DisplayWidth(interp_widths[i], min_bar_width)])
    IN  [frame |-> n_frame,
         main_frame |-> main_frame,
         sub_step |-> sub_step,
         bar_mapping |-> IF sub_step = 0 /\ n_frame # 0
                         THEN BarMapping(data.names, st.prev_names)
                         ELSE <<>>,
         start_positions |-> start_positions,
         new_positions |-> new_positions,
         t_eased |-> t_eased,
         interp_positions |-> IF first THEN List([i \in 1..n |-> OffScreen])
                              ELSE positions,
         interp_widths |-> interp_widths,
         max_width |-> max_width,
         display_widths |-> display_widths,
         active_bars |-> List([i \in 1..n |-> ~first /\ has_data[i]]),
         offset |-> Offset(display_widths)]

\* image_cache.get(cache_key)
CacheGet(cache, key) == IF key \in DOMAIN cache THEN cache[key] ELSE None

\* Lines 697-705.
DrawBar(bar, active, display_width, position, n) ==
    IF active
    THEN [bar EXCEPT !.width = display_width,
                     !.y = RSub(position, RMul(BarHeight(n), Rat(1, 2))),
                     !.visible = TRUE]
    ELSE [bar EXCEPT !.width = RInt(0), !.y = OffScreen, !.visible = FALSE]

\* Mutant of ValueText: the text shows the floored bar length.
ValueTextOfBar(interp_width, display_width) == <<FormatValue(display_width)>>

\* Line 744: the text of the value, f"{interp_widths[i]:,.0f}".
ValueText(interp_width, display_width) == <<FormatValue(interp_width)>>

\* Lines 734-746 and 835-836: the value text of a slot.
DrawText(obj, first, has_data, text_x, offset, y, interp_width) ==
    IF first \/ ~has_data
    THEN [obj EXCEPT !.visible = FALSE]
    ELSE [position |-> <<RAdd(text_x, offset), y>>,
          text |-> ValueText(interp_width, text_x),
          visible |-> TRUE]

\* Lines 748-755 and 837: the label of a slot.
DrawLabel(obj, first, has_data, label, offset, y) ==
    IF first \/ ~has_data \/ label = ""
    THEN [obj EXCEPT !.visible = FALSE]
    ELSE [position |-> <<RSub(RInt(0), offset), y>>, text |-> label, visible |-> TRUE]

\* line_spacing_mapping.get(top_n, {}).get(song_lines, 0.30), lines 764-777.
ArtistYOffset(n, song_lines) ==
    LET row == CASE n = 1 -> <<6, 10, 22>>   [] n = 2 -> <<8, 12, 14>>
                 [] n = 3 -> <<10, 14, 19>>  [] n = 4 -> <<14, 19, 25>>
                 [] n = 5 -> <<16, 23, 29>>  [] n = 6 -> <<17, 24, 32>>
                 [] n = 7 -> <<20, 29, 36>>  [] n = 8 -> <<22, 31, 39>>
                 [] n = 9 -> <<24, 33, 43>>  [] n = 10 -> <<25, 35, 45>>
                 [] OTHER -> <<>>
    IN  IF song_lines \in DOMAIN row THEN Rat(row[song_lines], 100) ELSE Rat(30, 100)

\* Lines 757-788 and 838: the caption "(artist)" of a slot.  The labels of
\* the catalogue have one line.
DrawCaption(obj, first, has_data, attr, artist_name, offset, y, n) ==
    IF \/ first
       \/ ~has_data
       \/ attr \notin {"track_name", "album_name"}
       \/ artist_name = ""
    THEN [obj EXCEPT !.visible = FALSE]
    ELSE [position |-> <<RSub(RInt(0), offset), RSub(y, ArtistYOffset(n, 1))>>,
          text |-> <<"(", artist_name, ")">>,
          visible |-> TRUE]

\* Lines 794-798: the slot gets a new AnnotationBbox in this frame.
Rebuilds(ann, first, has_data, img_data, text_x, name) ==
    /\ ~first
    /\ has_data
    /\ img_data # None
    /\ RLess(RInt(0), text_x)
    /\ name # ""
    /\ (ann = None \/ ann.cached_name # name)

\* Mutant of NextAnnotation: a thumbnail is not removed when the slot's
\* entity has no image.
NextAnnotationKeepsStale(ann, first, has_data, img_data, text_x, name, y, serial) ==
    IF first \/ ~has_data THEN None
    ELSE IF img_data # None /\ RLess(RInt(0), text_x) /\ name # ""
    THEN IF ann = None \/ ann.cached_name # name
         THEN [cached_name |-> name, xy |-> <<text_x, y>>, img |-> img_data.img,
               serial |-> serial]
         ELSE [ann EXCEPT !.xy = <<text_x, y>>]
    ELSE ann

\* Mutant of NextAnnotation: the AnnotationBbox is built anew in every frame
\* that shows it.
NextAnnotationAlwaysBuilt(ann, first, has_data, img_data, text_x, name, y, serial) ==
    IF first \/ ~has_data THEN None
    ELSE IF img_data # None /\ RLess(RInt(0), text_x) /\ name # ""
    THEN [cached_name |-> name, xy |-> <<text_x, y>>, img |-> img_data.img,
          serial |-> serial + 1]
    ELSE None

\* Lines 739-741 and 790-841: the thumbnail of a slot after the frame.
\* serial tells the AnnotationBbox objects apart.
NextAnnotation(ann, first, has_data, img_data, text_x, name, y, serial) ==
    IF first \/ ~has_data THEN None
    ELSE IF img_data # None /\ RLess(RInt(0), text_x) /\ name # ""
    THEN IF ann = None \/ ann.cached_name # name
         THEN [cached_name |-> name, xy |-> <<text_x, y>>, img |-> img_data.img,
               serial |-> serial]
         ELSE [ann EXCEPT !.xy = <<text_x, y>>]
    ELSE None

\* Mutant of NextAnimState: the previous fields are written in every frame.
NextAnimStateEveryFrame(st, v, data, n, steps) ==
    LET st1 == IF v.sub_step = 0
               THEN [st EXCEPT !.current_new_positions = v.new_positions]
               ELSE st
        st2 == [st1 EXCEPT !.prev_widths = data.widths,
                           !.prev_names = data.names,
                           !.prev_positions = v.new_positions]
    IN  IF v.sub_step = steps - 1
        THEN [st2 EXCEPT !.prev_interp_positions = TargetPositions(n)]
        ELSE [st2 EXCEPT !.prev_interp_positions = v.interp_positions]

\* Lines 843-850 and 611-614: the AnimationState after the frame.
NextAnimState(st, v, data, n, steps) ==
    LET st1 == IF v.sub_step = 0
               THEN [st EXCEPT !.current_new_positions = v.new_positions]
               ELSE st
    IN  IF v.sub_step = steps - 1
        THEN [st1 EXCEPT !.prev_widths = data.widths,
                         !.prev_names = data.names,
                         !.prev_positions = v.new_positions,
                         !.prev_interp_positions = TargetPositions(n)]
        ELSE [st1 EXCEPT !.prev_interp_positions = v.interp_positions]

\* --------------------------------------------------- the animation run
MaxSteps == 4

MaxAnimEvents == 4

\* The tracks of the tables of SpecAnim: three tracks of different names.
AnimTracks == {1, 3, 4}

\* The last day of the tables of SpecAnim, and the end_date of the run.
AnimLastDate == MaxDate - 1

\* monthly_df[selected_attribute].unique(): the values in order of appearance.
UniqueKeys(mdf) ==
    LET firsts == {i \in DOMAIN mdf : \A j \in 1..(i - 1) : mdf[j].key # mdf[i].key}
        idx == SetToSeq(firsts, LAMBDA a, b : a < b)
    IN  [i \in DOMAIN idx |-> mdf[idx[i]].key]

\* The caches preload_images_batch can leave behind for the names ns: no
\* entry at all; an image for the first name, the marker None for the
\* second and no entry for the others; an image for every name.
CacheOf(kind, ns, n) ==
    LET image(name) == Downloaded([name |-> name, image_url |-> UrlOf(name),
                                   target_size |-> TargetSize(n)])
    IN  CASE kind = "empty" -> <<>>
          [] kind = "mixed" ->
                [k \in {CacheKey(ns[i], n) : i \in DOMAIN ns \cap {1, 2}} |->
                    IF k = CacheKey(ns[1], n) THEN image(ns[1]) ELSE None]
          [] kind = "full" ->
                [k \in {CacheKey(ns[i], n) : i \in DOMAIN ns} |-> image(k[1])]

\* (selected_attribute, analysis_metric, cache) of the runs of SpecAnim.
AnimSettings ==
    {[attr |-> "track_name", metric |-> "Streams", cache |-> "mixed"],
     [attr |-> "track_name", metric |-> "duration_ms", cache |-> "full"],
     [attr |-> "artist_name", metric |-> "Streams", cache |-> "empty"]}

\* The values of interp_steps of the runs of SpecAnim: one frame for each
\* snapshot, two, and the most.
InterpSteps == {1, 2, MaxSteps}

\* The value the constructor AnimationState(top_n) (modules.state) leaves in
\* current_new_positions, which animate writes at sub-step 0 before it reads
\* it: nothing yet, or the target positions already.
InitialNewPositions(n) == {<<>>, TargetPositions(n)}

\* Lines 552-566: the rows at or before the first timestamp with the
\* largest cumulative values.
InitialTop(mdf, ts, n) ==
    Head_n(StableSort(SelectSeq(mdf, LAMBDA r : r.Date <= ts), RankBefore), n)

\* The state when FuncAnimation first calls animate: the table aggregated,
\* the snapshots precomputed with a stride of one day, the images preloaded,
\* lines 414-581 run.
InitAnim ==
    /\ pc = "animating"
    /\ df \in DfSet(AnimTracks, AnimLastDate, MaxAnimEvents) \ {<<>>}
    /\ \E setting \in AnimSettings :
          /\ selected_attribute = setting.attr
          /\ analysis_metric = setting.metric
          /\ top_n \in 1..MaxTopN
          /\ monthly_df = MonthlyDf(df, selected_attribute, analysis_metric)
          /\ names = UniqueKeys(monthly_df)
          /\ image_cache = CacheOf(setting.cache, names, top_n)
    /\ start_date = -3
    /\ end_date = AnimLastDate
    /\ days = 1
    /\ timestamps = Timestamps(monthly_df, start_date, end_date, days)
    /\ precomputed_data = PrecomputedData(monthly_df, timestamps, selected_attribute, top_n)
    /\ item_type = CASE selected_attribute = "artist_name" -> "artist"
                     [] selected_attribute = "track_name" -> "track"
                     [] selected_attribute = "album_name" -> "album"
    /\ items_to_fetch = <<>>
    /\ batch_results = <<>>
    /\ search_failed = {}
    /\ download_tasks = <<>>
    /\ futures = <<>>
    /\ frame = 0
    /\ LET initial_top_sorted == InitialTop(monthly_df, timestamps[1], top_n)
           initial_names == Pad([i \in DOMAIN initial_top_sorted |->
                                    initial_top_sorted[i].key], top_n, "")
           initial_labels == Pad([i \in DOMAIN initial_top_sorted |->
                                     WrapLabel(initial_top_sorted[i].key)], top_n, "")
           color(i) == LET img_data == CacheGet(image_cache, CacheKey(initial_names[i], top_n))
                       IN  IF initial_names[i] # "" /\ img_data # None
                           THEN img_data.color ELSE <<"default">>
       IN  /\ \E unset \in InitialNewPositions(top_n) :
                 anim_state = [prev_labels |-> initial_labels,
                               prev_widths |-> [i \in 1..top_n |-> 0],
                               prev_names |-> initial_names,
                               prev_positions |-> [i \in 1..top_n |-> OffScreen],
                               prev_interp_positions |-> [i \in 1..top_n |-> OffScreen],
                               current_new_positions |-> unset]
           /\ bars = [i \in 1..top_n |->
                         [width |-> RInt(0),
                          y |-> RSub(OffScreen, RMul(BarHeight(top_n), Rat(1, 2))),
                          visible |-> TRUE,
                          facecolor |-> color(i)]]
    /\ interp_steps \in InterpSteps
    /\ locals = <<>>
    /\ text_objects = [i \in 1..top_n |->
                          [position |-> <<RInt(0), RInt(i - 1)>>, text |-> <<>>,
                           visible |-> FALSE]]
    /\ label_objects = [i \in 1..top_n |->
                           [position |-> <<RInt(0), RInt(i - 1)>>, text |-> "",
                            visible |-> FALSE]]
    /\ artist_label_objects = [i \in 1..top_n |->
                                  [position |-> <<RInt(0), RInt(i - 1)>>, text |-> <<>>,
                                   visible |-> FALSE]]
    /\ image_annotations = [i \in 1..top_n |-> None]
    /\ annotations_built = 0
    /\ axes = <<>>

\* animate(frame), lines 588-857, for the next frame of the run.  locals'
\* holds the values of lines 588-695 and 707-708; the drawing reads them.
Animate ==
    /\ pc = "animating"
    /\ frame < Len(timestamps) * interp_steps
    /\ locals' = FrameValues(frame, interp_steps, top_n,
                             precomputed_data[timestamps[(frame \div interp_steps) + 1]],
                             anim_state)
    /\ LET v == locals'
           current_time == timestamps[v.main_frame + 1]
           data == precomputed_data[current_time]
           first == IsFirstFrame(frame, v.sub_step)
           img_data(i) == CacheGet(image_cache, CacheKey(data.names[i], top_n))
           rebuilds(i) == Rebuilds(image_annotations[i], first, v.active_bars[i],
                                   img_data(i), v.display_widths[i], data.names[i])
           serial(i) == annotations_built
                        + Cardinality({j \in 1..i : rebuilds(j)})
       IN  /\ bars' = [i \in 1..top_n |->
                          LET bar == DrawBar(bars[i], v.active_bars[i],
                                             v.display_widths[i],
                                             v.interp_positions[i], top_n)
                          IN  IF rebuilds(i)
                              THEN [bar EXCEPT !.facecolor = img_data(i).color]
                              ELSE bar]
           /\ text_objects' = [i \in 1..top_n |->
                 DrawText(text_objects[i], first, v.active_bars[i],
                          v.display_widths[i], v.offset, v.interp_positions[i],
                          v.interp_widths[i])]
           /\ label_objects' = [i \in 1..top_n |->
                 DrawLabel(label_objects[i], first, v.active_bars[i],
                           data.labels[i], v.offset, v.interp_positions[i])]
           /\ artist_label_objects' = [i \in 1..top_n |->
                 DrawCaption(artist_label_objects[i], first, v.active_bars[i],
                             selected_attribute, data.artist_names[i], v.offset,
                             v.interp_positions[i], top_n)]
           /\ image_annotations' = [i \in 1..top_n |->
                 NextAnnotation(image_annotations[i], first, v.active_bars[i],
                                img_data(i), v.display_widths[i], data.names[i],
                                v.interp_positions[i], serial(i))]
           /\ annotations_built' = serial(top_n)
           /\ anim_state' = NextAnimState(anim_state, v, data, top_n, interp_steps)
           /\ axes' = [xlim |-> RMul(RMaxOf(v.display_widths), Rat(11, 10)),
                       current_time |-> current_time]
    /\ frame' = frame + 1
    /\ UNCHANGED <<dataVars, preloadVars, interp_steps>>

NextAnim == Animate

SpecAnim == InitAnim /\ [][NextAnim]_vars

\* ------------------------------------------------ claims on the frames
\* A frame has been drawn; locals holds its values.
Drawn == pc = "animating" /\ frame > 0

\* The snapshot of main frame m (0-based).
SnapshotOf(m) == precomputed_data[timestamps[m + 1]]

\* The first slot (1-based) of the snapshot snap that holds name, 0 if none.
SlotOf(snap, name) ==
    IF \E j \in DOMAIN snap.names : snap.names[j] = name
    THEN CHOOSE j \in DOMAIN snap.names :
            /\ snap.names[j] = name
            /\ \A k \in 1..(j - 1) : snap.names[k] # name
    ELSE 0

\* C1, first half, over the step that draws sub-step 0 of a main frame
\* m >= 1 with t = 0: every entity shown in the frame before (the last
\* sub-frame of transition m - 1) that is still in snapshot m has the
\* position and the width it had there.
C1_ReproducesPreviousFrame ==
    (Drawn /\ interp_steps > 1 /\ locals'.sub_step = 0 /\ locals'.main_frame >= 1) =>
        \A i \in 1..top_n :
            LET name == SnapshotOf(locals'.main_frame).names[i]
                j == SlotOf(SnapshotOf(locals.main_frame), name)
            IN  (name # "" /\ j # 0 /\ locals.active_bars[j]) =>
                    /\ locals'.interp_positions[i] = locals.interp_positions[j]
                    /\ locals'.interp_widths[i] = locals.interp_widths[j]

\* C1, second half, over the step that draws sub-step K - 1 of a main
\* frame m >= 1: every slot is at its target position with the width of
\* snapshot m.
C1_ReachesTarget ==
    (pc = "animating" /\ frame' = frame + 1
        /\ locals'.sub_step = interp_steps - 1 /\ locals'.main_frame >= 1) =>
        \A i \in 1..top_n :
            /\ locals'.interp_positions[i] = TargetPositions(top_n)[i]
            /\ locals'.interp_widths[i] = RInt(SnapshotOf(locals'.main_frame).widths[i])

\* C1: in every transition after the first, sub-step 0 (t = 0) reproduces
\* the previous frame's positions and widths of the entities that stay, and
\* sub-step K - 1 (t = 1) reaches the target positions and widths.
C1_InterpolationEndpoints ==
    [][C1_ReproducesPreviousFrame /\ C1_ReachesTarget]_vars

\* C2: at sub-step 0 of every main frame m >= 1 each new slot whose
\* non-empty name occurs in snapshot m - 1 is mapped to the first slot of
\* that name in snapshot m - 1 and starts from that slot's position, never
\* from -1; a name absent from snapshot m - 1 is entering and starts at -1.
C2_ContinuingSlotsMapped ==
    (Drawn /\ locals.sub_step = 0 /\ locals.main_frame >= 1) =>
        \A i \in 1..top_n :
            LET name == SnapshotOf(locals.main_frame).names[i]
                j == SlotOf(SnapshotOf(locals.main_frame - 1), name)
            IN  name # "" =>
                    IF j # 0
                    THEN /\ locals.bar_mapping[i] = j
                         /\ locals.start_positions[i] = TargetPositions(top_n)[j]
                         /\ locals.start_positions[i] # OffScreen
                    ELSE /\ locals.bar_mapping[i] = 0
                         /\ locals.start_positions[i] = OffScreen

\* [A, B, C] then [B, A, C]: new slot 0 continues old slot 1, new slot 1 old
\* slot 0 and new slot 2 old slot 2.
C2_Witness ==
    /\ Drawn
    /\ locals.sub_step = 0
    /\ locals.main_frame = 1
    /\ SnapshotOf(0).names = <<"A", "B", "C">>
    /\ SnapshotOf(1).names = <<"B", "A", "C">>
    /\ locals.bar_mapping = <<2, 1, 3>>

\* C3: frame 0 leaves every slot inactive with bar width 0 and position -1,
\* its value text, label and caption hidden and its thumbnail removed.
C3_FirstFrameHidden ==
    (pc = "animating" /\ frame = 1) =>
        \A i \in 1..top_n :
            /\ ~locals.active_bars[i]
            /\ locals.display_widths[i] = RInt(0)
            /\ locals.interp_positions[i] = OffScreen
            /\ bars[i].width = RInt(0)
            /\ bars[i].y = OffScreen
            /\ ~bars[i].visible
            /\ ~text_objects[i].visible
            /\ ~label_objects[i].visible
            /\ ~artist_label_objects[i].visible
            /\ image_annotations[i] = None

\* Frame 0 of a run of one sub-frame per transition, whose first snapshot
\* has an entity: without the special case its bar would be drawn.
C3_Witness ==
    /\ pc = "animating"
    /\ frame = 1
    /\ interp_steps = 1
    /\ SnapshotOf(0).names[1] # ""
    /\ RLess(RInt(0), locals.interp_widths[1])

\* C8: in every frame other than frame 0 the bar of every active slot is at
\* least fraction(top_n) times the frame's maximum interpolated width long,
\* and the value text shows the interpolated width, not the floored one.
C8_MinimumBarWidth ==
    (Drawn /\ locals.frame # 0) =>
        \A i \in 1..top_n :
            locals.active_bars[i] =>
                /\ bars[i].visible
                /\ bars[i].width = locals.display_widths[i]
                /\ RLeq(RMul(MinBarWidthMultiplier(top_n), RMaxOf(locals.interp_widths)),
                        bars[i].width)
                /\ text_objects[i].visible
                /\ text_objects[i].text = <<FormatValue(locals.interp_widths[i])>>

\* A bar lengthened by the floor whose value text differs from the text of
\* its length.
C8_Witness ==
    /\ Drawn
    /\ locals.frame # 0
    /\ \E i \in 1..top_n :
          /\ locals.active_bars[i]
          /\ RLess(locals.interp_widths[i], bars[i].width)
          /\ FormatValue(locals.interp_widths[i]) # FormatValue(bars[i].width)

\* The slot's entity has no image: its cache key is absent or holds None.
NoImage(i) ==
    CacheGet(image_cache, CacheKey(SnapshotOf(locals.main_frame).names[i], top_n)) = None

\* C9: in every frame every active slot has its bar, value text and label
\* drawn from the frame's values, with an image or without; an active slot
\* whose cache key is absent from image_cache or maps to None has no
\* thumbnail after the frame.
C9_MissingImageTolerated ==
    Drawn =>
        \A i \in 1..top_n :
            locals.active_bars[i] =>
                /\ bars[i].visible
                /\ bars[i].width = locals.display_widths[i]
                /\ bars[i].y = RSub(locals.interp_positions[i],
                                    RMul(BarHeight(top_n), Rat(1, 2)))
                /\ text_objects[i] =
                      [position |-> <<RAdd(locals.display_widths[i], locals.offset),
                                      locals.interp_positions[i]>>,
                       text |-> <<FormatValue(locals.interp_widths[i])>>,
                       visible |-> TRUE]
                /\ label_objects[i] =
                      [position |-> <<RSub(RInt(0), locals.offset),
                                      locals.interp_positions[i]>>,
                       text |-> SnapshotOf(locals.main_frame).labels[i],
                       visible |-> TRUE]
                /\ NoImage(i) => image_annotations[i] = None

\* A frame with three active slots: one with an image, one whose key holds
\* None and one whose key is absent.
C9_Witness ==
    /\ Drawn
    /\ top_n = 3
    /\ \A i \in 1..3 : locals.active_bars[i]
    /\ \E i, j, k \in 1..3 :
          LET key(x) == CacheKey(SnapshotOf(locals.main_frame).names[x], top_n)
          IN  /\ image_annotations[i] # None
              /\ key(j) \in DOMAIN image_cache /\ image_cache[key(j)] = None
              /\ image_annotations[j] = None
              /\ key(k) \notin DOMAIN image_cache
              /\ image_annotations[k] = None

\* ------------------------------------------- claims on the interpolation
\* The position slot i (1-based) of main frame m starts from at the
\* beginning of the transition: the position the slot's entity reached at
\* the end of transition m - 1, or -1 when the entity enters.
TransitionStart(m, i) ==
    LET j == IF m = 0 THEN 0 ELSE SlotOf(SnapshotOf(m - 1), SnapshotOf(m).names[i])
    IN  IF j = 0 THEN OffScreen ELSE TargetPositions(top_n)[j]

\* C11: for every sub-step s of a transition with K > 1 sub-frames, the
\* interpolated position of every slot that holds an entity is
\* start + (target - start) * ease(s / (K - 1)), with start the position
\* fixed at the beginning of the transition and target the slot's target
\* position: it depends on start, target and s only.
C11_PositionFromFixedStart ==
    (Drawn /\ interp_steps > 1) =>
        \A i \in 1..top_n :
            LET start == TransitionStart(locals.main_frame, i)
                target == TargetPositions(top_n)[i]
                t == TOf(locals.sub_step, interp_steps)
            IN  SnapshotOf(locals.main_frame).names[i] # "" =>
                    locals.interp_positions[i] =
                        RAdd(start, RMul(RSub(target, start), quadratic_ease_in_out(t)))

\* The width the entity of slot i (1-based) of main frame m had in snapshot
\* m - 1, 0 when it was not there.
PreviousWidthOf(m, i) ==
    LET j == IF m = 0 THEN 0 ELSE SlotOf(SnapshotOf(m - 1), SnapshotOf(m).names[i])
    IN  IF j = 0 THEN 0 ELSE SnapshotOf(m - 1).widths[j]

\* C12: in every frame the interpolated width of a slot that holds an
\* entity is prev + (target - prev) * ease(t), with target the snapshot's
\* width of the slot and prev the width the entity had in the previous
\* snapshot, 0 when the entity is new; an entering entity has width 0 at t = 0.
C12_WidthFromEntityPrevious ==
    Drawn =>
        \A i \in 1..top_n :
            LET prev == RInt(PreviousWidthOf(locals.main_frame, i))
                target == RInt(SnapshotOf(locals.main_frame).widths[i])
            IN  SnapshotOf(locals.main_frame).names[i] # "" =>
                    locals.interp_widths[i] =
                        RAdd(prev, RMul(RSub(target, prev), locals.t_eased))

\* ------------------------------------------ claims on the AnimationState
\* The fields of the AnimationState other than those of the set skip keep
\* their values over the step.
FieldsKept(skip) ==
    \A f \in (DOMAIN anim_state) \ skip : anim_state'[f] = anim_state[f]

\* The step draws a frame of sub-step K - 1: prev_widths, prev_names and
\* prev_positions become the snapshot's widths, its names and the target
\* positions.
PrevFieldsTakeSnapshot ==
    LET data == SnapshotOf(frame \div interp_steps)
    IN  /\ anim_state'.prev_widths = data.widths
        /\ anim_state'.prev_names = data.names
        /\ anim_state'.prev_positions = TargetPositions(top_n)

\* C13 as stated, over the step that draws a frame: at sub-step K - 1
\* prev_widths, prev_names and prev_positions become the snapshot's widths,
\* names and target positions; at every sub-step < K - 1 no field of the
\* AnimationState changes but prev_interp_positions.
C13_OnlyRollingCacheChanges ==
    [][(pc = "animating" /\ frame' = frame + 1) =>
          IF frame % interp_steps = interp_steps - 1
          THEN PrevFieldsTakeSnapshot
          ELSE FieldsKept({"prev_interp_positions"})]_vars

\* C13 amended: at sub-step K - 1 prev_widths, prev_names and prev_positions
\* become the snapshot's widths, names and target positions; at every
\* sub-step < K - 1 they are left unchanged, and the only fields that change
\* are prev_interp_positions and, at sub-step 0, current_new_positions,
\* which is set to the target positions.
C13_PrevFieldsWrittenAtLastSubStep ==
    [][(pc = "animating" /\ frame' = frame + 1) =>
          /\ IF frame % interp_steps = interp_steps - 1
             THEN PrevFieldsTakeSnapshot
             ELSE FieldsKept({"prev_interp_positions", "current_new_positions"})
          /\ IF frame % interp_steps = 0
             THEN anim_state'.current_new_positions = TargetPositions(top_n)
             ELSE anim_state'.current_new_positions = anim_state.current_new_positions]_vars

\* A transition m >= 1 of several sub-frames has just ended on a snapshot
\* whose names differ from the previous one's, and the previous fields hold
\* the new snapshot.
C13_Witness ==
    /\ Drawn
    /\ interp_steps > 1
    /\ locals.sub_step = interp_steps - 1
    /\ locals.main_frame >= 1
    /\ SnapshotOf(locals.main_frame).names # SnapshotOf(locals.main_frame - 1).names
    /\ anim_state.prev_names = SnapshotOf(locals.main_frame).names
    /\ anim_state.prev_widths = SnapshotOf(locals.main_frame).widths

\* ------------------------------------------------- claims on the slots
\* C14: in every frame a slot is active iff its interpolated width is
\* greater than zero, the snapshot gives it a non-empty name and the frame
\* is not frame 0; the bar of an active slot is visible, and an inactive
\* slot has bar width 0 and position -1, its bar, value text, label and
\* caption invisible and no thumbnail: a padded slot is never drawn.
C14_InactiveSlotsHidden ==
    Drawn =>
        \A i \in 1..top_n :
            LET name == SnapshotOf(locals.main_frame).names[i]
                active == locals.active_bars[i]
            IN  /\ active <=> /\ RLess(RInt(0), locals.interp_widths[i])
                              /\ name # ""
                              /\ locals.frame # 0
                /\ bars[i].visible <=> active
                /\ ~active =>
                      /\ bars[i].width = RInt(0)
                      /\ bars[i].y = OffScreen
                      /\ ~text_objects[i].visible
                      /\ ~label_objects[i].visible
                      /\ ~artist_label_objects[i].visible
                      /\ image_annotations[i] = None

\* A frame after frame 0 that draws one slot and leaves out a padded slot
\* and the slot of an entity that enters with width 0.
C14_Witness ==
    /\ Drawn
    /\ locals.frame > 0
    /\ \E i, j, k \in 1..top_n :
          /\ locals.active_bars[i]
          /\ bars[i].visible
          /\ SnapshotOf(locals.main_frame).names[j] = ""
          /\ ~bars[j].visible
          /\ SnapshotOf(locals.main_frame).names[k] # ""
          /\ locals.interp_widths[k] = RInt(0)
          /\ ~bars[k].visible

\* C15: over any two consecutive frames, the thumbnail object of slot i is
\* replaced by a new one in the later frame only when the name of the slot
\* differs from its name in the earlier frame; when the name is the same,
\* the thumbnail the slot has is kept and only its anchor is updated.
C15_ThumbnailKeptWhileNameSame ==
    [][(pc = "animating" /\ frame > 0 /\ frame' = frame + 1) =>
          \A i \in 1..top_n :
              LET earlier == SnapshotOf(locals.main_frame).names[i]
                  later == SnapshotOf(locals'.main_frame).names[i]
                  ann == image_annotations[i]
                  anchor == <<locals'.display_widths[i], locals'.interp_positions[i]>>
              IN  /\ (/\ ann # None
                      /\ image_annotations'[i] # None
                      /\ image_annotations'[i].serial # ann.serial) => later # earlier
                  /\ (ann # None /\ later = earlier) =>
                        image_annotations'[i] = [ann EXCEPT !.xy = anchor]]_vars

\* The only thumbnail built so far, made at frame 1, is still attached two
\* sub-frames into the first transition, anchored at the bar's end.
C15_Witness ==
    /\ Drawn
    /\ locals.main_frame = 0
    /\ locals.sub_step >= 2
    /\ annotations_built = 1
    /\ \E i \in 1..top_n :
          /\ image_annotations[i] # None
          /\ image_annotations[i].serial = 1
          /\ image_annotations[i].xy = <<locals.display_widths[i], locals.interp_positions[i]>>
          /\ locals.interp_positions[i] # TargetPositions(top_n)[i]

\* x lies between a and b, the ends included.
Between(a, x, b) ==
    \/ RLeq(a, x) /\ RLeq(x, b)
    \/ RLeq(b, x) /\ RLeq(x, a)

\* C16: in every frame every slot's interpolated position lies in [-1, 9],
\* and within a transition (sub-step > 0) it lies between the position of
\* the previous sub-frame and the target position: it never overshoots the
\* target and never moves away from it.
C16_PositionsMoveTowardTarget ==
    [][(pc = "animating" /\ frame' = frame + 1) =>
          \A i \in 1..top_n :
              /\ Between(RInt(-1), locals'.interp_positions[i], RInt(9))
              /\ locals'.sub_step > 0 =>
                    Between(locals.interp_positions[i],
                            locals'.interp_positions[i],
                            TargetPositions(top_n)[i])]_vars

\* A sub-frame inside a transition in which one slot is on its way up and
\* another on its way down, both strictly between the position of the
\* sub-frame before and the target.
C16_Witness ==
    /\ Drawn
    /\ locals.sub_step > 0
    /\ \E i, j \in 1..top_n :
          /\ RLess(locals.start_positions[i], locals.interp_positions[i])
          /\ RLess(locals.interp_positions[i], TargetPositions(top_n)[i])
          /\ RLess(TargetPositions(top_n)[j], locals.interp_positions[j])
          /\ RLess(locals.interp_positions[j], locals.start_positions[j])
====
